---- MODULE Spec2Model ----
(***************************************************************************)
(* BunnyRecorder (src/src/mod.js): a MediaRecorder-compatible shim over    *)
(* the MediaBunny muxing engine.  The model is one recorder instance on    *)
(* the single JavaScript event loop.  Every async method is cut at its     *)
(* await points: the call action runs the code up to the first await, and  *)
(* one action per await resumes it.  Between two such actions any other    *)
(* public method, display-refresh tick or interval timer may run.          *)
(***************************************************************************)
EXTENDS Integers, Sequences, FiniteSets, TLC

\* ------------------------------------------------------------------ bounds
\* start() calls that pass the guard (one session each), under Spec
MaxStarts == 2
\* the same under SpecSolo
SoloStarts == 1

\* --------------------------------------------------------------- constants
Null == 0            \* the JavaScript null of a handle field
EmptyBlob == 0       \* `new Blob()`: the placeholder artifact
NoData == -1         \* an event that carries no `data`

StartIds == 1..MaxStarts
\* a stop() passes its guard at most once per accepted start()
StopIds == StartIds
\* requestAnimationFrame ids; an id is reused once nothing refers to it
RafIds == 1..(MaxStarts + 3)

VARIABLES
    state,              \* this.state
    output,             \* this.output: id of the engine handle, or Null
    videoSource,        \* this.videoSource
    audioSource,        \* this.audioSource
    canvas,             \* this.canvas (the Capture Surface)
    video,              \* this.video (the playback element)
    audioContext,       \* this.audioContext
    mediaStreamSource,  \* this.mediaStreamSource
    audioWorkletNode,   \* this.audioWorkletNode
    processor,          \* this.processor (the Audio Tap)
    animationFrame,     \* this.animationFrame
    rafPending,         \* browser: the scheduled requestAnimationFrame ids
    timers,             \* browser: the live setInterval timers (by start id)
    tapFromSource,      \* audio graph: taps fed by their source node
    tapToSink,          \* audio graph: taps connected to context.destination
    closedContexts,     \* audio contexts that were close()d
    engine,             \* per engine handle: what was called on it
    start,              \* per accepted start(): where it is suspended
    stop,               \* per accepted stop(): where it is suspended
    hasVideo,           \* stream.getVideoTracks().length > 0
    hasAudio,           \* stream.getAudioTracks().length > 0
    limit,              \* how many start() calls the caller gets accepted
    mimeType,           \* this.mimeType, a string as its sequence of characters
    answer,             \* the selector or capability query just evaluated
    last                \* the step just taken: what ran, raised and emitted

fields == <<output, videoSource, audioSource, canvas, video, audioContext,
            mediaStreamSource, audioWorkletNode, processor>>
frames == <<animationFrame, rafPending>>
graph == <<tapFromSource, tapToSink, closedContexts>>
env == <<hasVideo, hasAudio, limit, mimeType, answer>>
vars == <<state, fields, frames, timers, graph, engine, start, stop, env, last>>

\* ----------------------------------------------------------------- helpers
IdleStart == [pc |-> "idle", timeslice |-> 0, pend |-> "none",
              handle |-> Null, ev |-> <<>>]
IdleStop == [pc |-> "idle", session |-> 0, handle |-> Null, ev |-> <<>>]
FreshEngine == [tracks |-> {}, start |-> "none", finalize |-> "none"]

\* lines 381-400: #dispatchEvent builds the event; `data` and `error` are its
\* payload.  The listeners and the legacy handler receive it synchronously.
Event(type, data, error) == [type |-> type, data |-> data, error |-> error]

\* One step of the event loop: the code that ran (op, of call id), the error
\* it raised to its caller (or rejected its promise with), the events it
\* dispatched in order, and whether it drew a frame.
Step(op, id, raised, emitted, drew) ==
    [op |-> op, id |-> id, raised |-> raised, emitted |-> emitted,
     drew |-> drew]

Types(evs) == [i \in 1..Len(evs) |-> evs[i].type]

NumStarts == Cardinality({c \in StartIds : start[c].pc # "idle"})
NumStops == Cardinality({k \in StopIds : stop[k].pc # "idle"})

\* --------------------------------------------------------------- mime types
\* Strings are sequences of one-character strings.
UpperCase ==
    <<"A", "B", "C", "D", "E", "F", "G", "H", "I", "J", "K", "L", "M",
      "N", "O", "P", "Q", "R", "S", "T", "U", "V", "W", "X", "Y", "Z">>
LowerCase ==
    <<"a", "b", "c", "d", "e", "f", "g", "h", "i", "j", "k", "l", "m",
      "n", "o", "p", "q", "r", "s", "t", "u", "v", "w", "x", "y", "z">>
\* String.prototype.toLowerCase on the characters these strings use
ToLowerChar(ch) ==
    IF \E i \in DOMAIN UpperCase : UpperCase[i] = ch
    THEN LowerCase[CHOOSE i \in DOMAIN UpperCase : UpperCase[i] = ch]
    ELSE ch
ToLowerCase(s) == [i \in 1..Len(s) |-> ToLowerChar(s[i])]
\* String.prototype.includes
Includes(s, sub) ==
    \E i \in 0..(Len(s) - Len(sub)) : SubSeq(s, i + 1, i + Len(sub)) = sub
\* String.prototype.startsWith
StartsWith(s, p) == Len(p) <= Len(s) /\ SubSeq(s, 1, Len(p)) = p

\* the needles of lines 336-372
Webm == <<"w", "e", "b", "m">>
Mp4 == <<"m", "p", "4">>
Av1 == <<"a", "v", "1">>
Vp9 == <<"v", "p", "9">>
Vp8 == <<"v", "p", "8">>
Opus == <<"o", "p", "u", "s">>
Vorbis == <<"v", "o", "r", "b", "i", "s">>

\* line 23: the default of options.mimeType
DefaultMime == <<"v", "i", "d", "e", "o", "/", "m", "p", "4">>

\* lines 436-444: supportedTypes
VideoMp4 == <<"v", "i", "d", "e", "o", "/", "m", "p", "4">>
VideoWebm == <<"v", "i", "d", "e", "o", "/", "w", "e", "b", "m">>
Mp4Avc1 ==
    <<"v", "i", "d", "e", "o", "/", "m", "p", "4", ";", " ", "c", "o", "d",
      "e", "c", "s", "=", "\"", "a", "v", "c", "1", ".", "4", "2", "E", "0",
      "1", "E", "\"">>
Mp4Av01 ==
    <<"v", "i", "d", "e", "o", "/", "m", "p", "4", ";", " ", "c", "o", "d",
      "e", "c", "s", "=", "\"", "a", "v", "0", "1", ".", "0", ".", "0", "5",
      "M", ".", "0", "8", "\"">>
WebmVp8 ==
    <<"v", "i", "d", "e", "o", "/", "w", "e", "b", "m", ";", " ", "c", "o",
      "d", "e", "c", "s", "=", "\"", "v", "p", "8", "\"">>
WebmVp9 ==
    <<"v", "i", "d", "e", "o", "/", "w", "e", "b", "m", ";", " ", "c", "o",
      "d", "e", "c", "s", "=", "\"", "v", "p", "9", "\"">>
WebmAv01 ==
    <<"v", "i", "d", "e", "o", "/", "w", "e", "b", "m", ";", " ", "c", "o",
      "d", "e", "c", "s", "=", "\"", "a", "v", "0", "1", ".", "0", ".", "0",
      "5", "M", ".", "0", "8", "\"">>
SupportedTypes ==
    {VideoMp4, VideoWebm, Mp4Avc1, Mp4Av01, WebmVp8, WebmVp9, WebmAv01}

\* The mime types tried: a container part followed by a parameter part.

CMp4 == <<"v", "i", "d", "e", "o", "/", "m", "p", "4">>
CWebmMixed == <<"V", "i", "d", "e", "o", "/", "W", "e", "b", "M">>
CUnknown ==
    <<"v", "i", "d", "e", "o", "/", "u", "n", "k", "n", "o", "w", "n">>
COgg == <<"a", "u", "d", "i", "o", "/", "o", "g", "g">>
CBoth ==
    <<"v", "i", "d", "e", "o", "/", "w", "e", "b", "m", "-", "m", "p", "4">>
CShort == <<"v", "i", "d", "e", "o">>
PAvc1 ==
    <<";", " ", "c", "o", "d", "e", "c", "s", "=", "\"", "a", "v", "c", "1",
      ".", "4", "2", "E", "0", "1", "E", "\"">>
PAv01 ==
    <<";", " ", "c", "o", "d", "e", "c", "s", "=", "\"", "a", "v", "0", "1",
      ".", "0", ".", "0", "5", "M", ".", "0", "8", "\"">>
PAv1Vp9 ==
    <<";", " ", "c", "o", "d", "e", "c", "s", "=", "\"", "a", "v", "1", ",",
      "v", "p", "9", "\"">>
PVp8Vorbis ==
    <<";", " ", "c", "o", "d", "e", "c", "s", "=", "\"", "v", "p", "8", ",",
      "v", "o", "r", "b", "i", "s", "\"">>
PUpper ==
    <<";", " ", "C", "O", "D", "E", "C", "S", "=", "\"", "V", "P", "9", ",",
      "O", "P", "U", "S", "\"">>
POpusVorbis ==
    <<";", " ", "c", "o", "d", "e", "c", "s", "=", "\"", "o", "p", "u", "s",
      ",", "v", "o", "r", "b", "i", "s", "\"">>
Containers == {CMp4, CWebmMixed, CUnknown, COgg, CBoth, CShort}
Params == {<<>>, PAvc1, PAv01, PAv1Vp9, PVp8Vorbis, PUpper, POpusVorbis}
MimeInputs == {c \o q : c \in Containers, q \in Params}

\* lines 333-344: #getOutputFormat; "webm" stands for a WebMOutputFormat,
\* "mp4" for an Mp4OutputFormat
OutputFormat(m) ==
    IF Includes(ToLowerCase(m), Webm) THEN "webm"
    ELSE IF Includes(ToLowerCase(m), Mp4) THEN "mp4"
    ELSE "mp4"

VideoCodecBug(m) ==
    IF Includes(ToLowerCase(m), Vp9) THEN "vp9"
    ELSE IF Includes(ToLowerCase(m), Av1) THEN "av1"
    ELSE IF Includes(ToLowerCase(m), Vp8) THEN "vp8"
    ELSE "avc"
\* lines 349-361: #getVideoCodec
VideoCodec(m) ==
    IF Includes(ToLowerCase(m), Av1) THEN "av1"
    ELSE IF Includes(ToLowerCase(m), Vp9) THEN "vp9"
    ELSE IF Includes(ToLowerCase(m), Vp8) THEN "vp8"
    ELSE "avc"

\* lines 366-376: #getAudioCodec
AudioCodec(m) ==
    IF Includes(ToLowerCase(m), Opus) THEN "opus"
    ELSE IF Includes(ToLowerCase(m), Vorbis) THEN "vorbis"
    ELSE "aac"

TypeSupportedBug(m) ==
    \E type \in SupportedTypes : StartsWith(m, ToLowerCase(type))
\* lines 435-449: static isTypeSupported
TypeSupported(m) ==
    \E type \in SupportedTypes :
        StartsWith(ToLowerCase(m), ToLowerCase(type))

\* what a selector or query returned for which argument
Answer(fn, arg, result) == [fn |-> fn, arg |-> arg, result |-> result]
NoAnswer == Answer("none", <<>>, "none")

\* lines 18-53: the constructor, for a caller with n sessions in mind
Constructed(n, mimes) ==
    /\ limit = n
    /\ mimeType \in mimes
    /\ answer = NoAnswer
    /\ state = "inactive"
    /\ output = Null /\ videoSource = Null /\ audioSource = Null
    /\ canvas = Null /\ video = Null /\ audioContext = Null
    /\ mediaStreamSource = Null /\ audioWorkletNode = Null
    /\ processor = Null
    /\ animationFrame = Null /\ rafPending = {}
    /\ timers = {}
    /\ tapFromSource = {} /\ tapToSink = {} /\ closedContexts = {}
    /\ engine = [h \in StartIds |-> FreshEngine]
    /\ start = [c \in StartIds |-> IdleStart]
    /\ stop = [k \in StopIds |-> IdleStop]
    /\ hasVideo \in BOOLEAN /\ hasAudio \in BOOLEAN
    /\ last = Step("new", 0, "none", <<>>, FALSE)

Init == Constructed(MaxStarts, {DefaultMime})
InitSolo == Constructed(SoloStarts, {DefaultMime})
\* a recorder constructed with any of the mime types tried
InitMime == Constructed(SoloStarts, MimeInputs) /\ hasVideo /\ hasAudio

\* ------------------------------------------------------------------ engine
\* The muxing engine is an external collaborator, known by the calls made on
\* it.  Per handle it keeps one start promise and one finalize promise, each
\* none -> pending -> ok | failed; a repeated call joins the promise there
\* is.  Tracks are accepted before start() only, and finalize() is refused
\* (rejects, changing nothing) on a handle that start() was never called on.
\* A pending promise may settle either way.
EngineAcceptsTrack(h) == engine[h].start = "none"
EngineAcceptsFinalize(h) == engine[h].start # "none"
\* the outcomes (TRUE: resolved) a promise in condition p can settle with
Outcomes(p) ==
    IF p = "pending" THEN BOOLEAN
    ELSE IF p = "ok" THEN {TRUE}
    ELSE {FALSE}
Settle(ok) == IF ok THEN "ok" ELSE "failed"

\* this.output.addVideoTrack / addAudioTrack: the error it raises, if any.
AddTrackError ==
    IF output = Null THEN "TypeError"
    ELSE IF ~EngineAcceptsTrack(output) THEN "EngineFailure"
    ELSE "none"

\* ----------------------------------------------------------- Frame Driver
\* requestAnimationFrame returns an id no pending callback and no field uses.
FreshRaf ==
    CHOOSE i \in RafIds :
        /\ i \notin rafPending \cup {animationFrame}
        /\ \A j \in RafIds :
               j \notin rafPending \cup {animationFrame} => i <= j

DrawsBug(st) == canvas # Null /\ video # Null
\* lines 300-310: captureFrame draws and schedules itself iff recording.
Draws(st) == canvas # Null /\ video # Null /\ st = "recording"

\* #startFrameCapture under recorder state st: the first captureFrame() runs
\* synchronously.
StartFrameCapture(st) ==
    IF Draws(st)
    THEN [af |-> FreshRaf, pending |-> rafPending \cup {FreshRaf}]
    ELSE [af |-> animationFrame, pending |-> rafPending]

\* cancelAnimationFrame(this.animationFrame) under `if (this.animationFrame)`
CancelFrame == rafPending \ {animationFrame}

\* ------------------------------------------------------------------ start()
StartRejectedBug == state = "recording"
\* line 60: the guard that throws InvalidStateError
StartRejected == state # "inactive"

StartCatchStateBug == state
\* line 84: the state the catch block of start() leaves
StartCatchState == "inactive"

\* The record of a start() that has settled.
Settled(c, pc, evs) ==
    [start EXCEPT ![c] = [pc |-> pc, timeslice |-> 0, pend |-> "none",
                          handle |-> Null, ev |-> start[c].ev \o Types(evs)]]

\* lines 83-87: catch (error) { state = inactive; dispatch error; throw },
\* after the events `before` that the try block had dispatched in this step.
StartCatch(c, err, before, drew) ==
    LET evs == Append(before, Event("error", NoData, err)) IN
    /\ state' = StartCatchState
    /\ start' = Settled(c, "failed", evs)
    /\ last' = Step("start.resume", c, err, evs, drew)

\* The caller: `limit` bounds the sessions it starts from inactive; a
\* start() in any other state is always open to it, and the code decides.
CallerStarts ==
    /\ NumStarts < MaxStarts
    /\ state = "inactive" => NumStarts < limit

\* lines 59-68 and 177-184: the call, up to the first await.
StartCall(ts, outOk) ==
    IF StartRejected
    THEN /\ last' = Step("start", 0, "InvalidStateError", <<>>, FALSE)
         /\ UNCHANGED <<state, fields, frames, timers, graph, engine, start,
                        stop, env>>
    ELSE /\ CallerStarts
         /\ LET c == NumStarts + 1 IN
            /\ state' = "recording"
            /\ output' = IF outOk THEN c ELSE output
            /\ start' = [start EXCEPT ![c] =
                   [pc |-> "afterOutput", timeslice |-> ts,
                    pend |-> IF outOk THEN "none" ELSE "SetupFailure",
                    handle |-> Null, ev |-> <<>>]]
            /\ last' = Step("start", c, "none", <<>>, FALSE)
         /\ UNCHANGED <<videoSource, audioSource, canvas, video, audioContext,
                        mediaStreamSource, audioWorkletNode, processor,
                        frames, timers, graph, engine, stop, env>>

\* lines 68-69 and 189-215: resume after #setupOutput, run #setupVideoCapture
\* up to the readiness wait.
StartAfterOutput(c) ==
    /\ start[c].pc = "afterOutput"
    /\ IF start[c].pend # "none"
       THEN /\ StartCatch(c, start[c].pend, <<>>, FALSE)
            /\ UNCHANGED <<canvas, video>>
       ELSE /\ IF hasVideo
               THEN /\ canvas' = c
                    /\ video' = c
                    /\ start' = [start EXCEPT ![c].pc = "waitVideo"]
               ELSE /\ start' = [start EXCEPT ![c].pc = "afterVideo"]
                    /\ UNCHANGED <<canvas, video>>
            /\ last' = Step("start.resume", c, "none", <<>>, FALSE)
            /\ UNCHANGED state
    /\ UNCHANGED <<output, videoSource, audioSource, audioContext,
                   mediaStreamSource, audioWorkletNode, processor, frames,
                   timers, graph, engine, stop, env>>

\* lines 211-224: the readiness promise settles; on success the video source
\* is created and registered on whatever this.output now holds.
StartVideoReady(c, ok) ==
    /\ start[c].pc = "waitVideo"
    /\ IF ~ok
       THEN /\ start' = [start EXCEPT ![c].pc = "afterVideo",
                                      ![c].pend = "SetupFailure"]
            /\ UNCHANGED <<videoSource, engine>>
       ELSE /\ videoSource' = c
            /\ start' = [start EXCEPT ![c].pc = "afterVideo",
                                      ![c].pend = AddTrackError]
            /\ engine' = IF AddTrackError = "none"
                         THEN [engine EXCEPT ![output].tracks = @ \cup {"video"}]
                         ELSE engine
    /\ last' = Step("start.resume", c, "none", <<>>, FALSE)
    /\ UNCHANGED <<state, output, audioSource, canvas, video, audioContext,
                   mediaStreamSource, audioWorkletNode, processor, frames,
                   timers, graph, stop, env>>

\* lines 69-70, 230-254 and 259-288: resume after #setupVideoCapture, run
\* #setupAudioCapture and #setupAudioProcessing.
StartAfterVideo(c, audioOk) ==
    /\ start[c].pc = "afterVideo"
    /\ IF start[c].pend # "none"
       THEN /\ StartCatch(c, start[c].pend, <<>>, FALSE)
            /\ UNCHANGED <<audioSource, audioContext, mediaStreamSource,
                           processor, graph, engine>>
       ELSE /\ IF ~hasAudio
               THEN /\ start' = [start EXCEPT ![c].pc = "afterAudio"]
                    /\ UNCHANGED <<audioSource, audioContext,
                                   mediaStreamSource, processor, graph, engine>>
               ELSE IF ~audioOk
               THEN /\ start' = [start EXCEPT ![c].pc = "afterAudio",
                                              ![c].pend = "SetupFailure"]
                    /\ UNCHANGED <<audioSource, audioContext,
                                   mediaStreamSource, processor, graph, engine>>
               ELSE /\ audioContext' = c
                    /\ mediaStreamSource' = c
                    /\ audioSource' = c
                    /\ start' = [start EXCEPT ![c].pc = "afterAudio",
                                              ![c].pend = AddTrackError]
                    /\ IF AddTrackError = "none"
                       THEN /\ engine' = [engine EXCEPT
                                   ![output].tracks = @ \cup {"audio"}]
                            /\ processor' = c
                            /\ tapFromSource' = tapFromSource \cup {c}
                            /\ tapToSink' = tapToSink \cup {c}
                            /\ UNCHANGED closedContexts
                       ELSE UNCHANGED <<engine, processor, graph>>
            /\ last' = Step("start.resume", c, "none", <<>>, FALSE)
            /\ UNCHANGED state
    /\ UNCHANGED <<output, videoSource, canvas, video, audioWorkletNode,
                   frames, timers, stop, env>>

\* lines 70-72: resume after #setupAudioCapture and call this.output.start().
StartAfterAudio(c) ==
    /\ start[c].pc = "afterAudio"
    /\ IF start[c].pend # "none"
       THEN StartCatch(c, start[c].pend, <<>>, FALSE) /\ UNCHANGED engine
       ELSE IF output = Null
       THEN StartCatch(c, "TypeError", <<>>, FALSE) /\ UNCHANGED engine
       ELSE /\ engine' = [engine EXCEPT ![output].start =
                              IF @ = "none" THEN "pending" ELSE @]
            /\ start' = [start EXCEPT ![c].pc = "waitEngineStart",
                                      ![c].handle = output]
            /\ last' = Step("start.resume", c, "none", <<>>, FALSE)
            /\ UNCHANGED state
    /\ UNCHANGED <<fields, frames, timers, graph, stop, env>>

\* lines 72-81, 293-313 and 318-328: the engine's start() settles; then
\* #startFrameCapture, the start event, the timeslice timer.
StartEngineStarted(c, ok, handlerThrows) ==
    /\ start[c].pc = "waitEngineStart"
    /\ LET h == start[c].handle
           fc == StartFrameCapture(state)
           evs == <<Event("start", NoData, "none")>>
       IN
       /\ ok \in Outcomes(engine[h].start)
       /\ engine' = [engine EXCEPT ![h].start = Settle(ok)]
       /\ IF ~ok
          THEN /\ StartCatch(c, "EngineFailure", <<>>, FALSE)
               /\ UNCHANGED <<frames, timers>>
          ELSE
            /\ animationFrame' = fc.af
            /\ rafPending' = fc.pending
            /\ IF handlerThrows
               THEN /\ StartCatch(c, "HandlerError", evs, Draws(state))
                    /\ UNCHANGED timers
               ELSE /\ timers' = IF start[c].timeslice > 0
                                 THEN timers \cup {c} ELSE timers
                    /\ start' = Settled(c, "done", evs)
                    /\ last' = Step("start.resume", c, "none", evs,
                                    Draws(state))
                    /\ UNCHANGED state
    /\ UNCHANGED <<fields, graph, stop, env>>

\* ------------------------------------------------------------------- stop()
\* lines 405-430: #cleanup.  It tests audioWorkletNode, which nothing ever
\* assigns; this.processor is neither disconnected nor cleared.
Cleanup ==
    /\ audioWorkletNode' = Null
    /\ tapToSink' = IF audioWorkletNode # Null
                    THEN tapToSink \ {audioWorkletNode} ELSE tapToSink
    /\ tapFromSource' = tapFromSource \ {mediaStreamSource}
    /\ mediaStreamSource' = Null
    /\ closedContexts' = IF audioContext # Null
                         THEN closedContexts \cup {audioContext}
                         ELSE closedContexts
    /\ audioContext' = Null
    /\ video' = Null
    /\ canvas' = Null
    /\ output' = Null
    /\ videoSource' = Null
    /\ audioSource' = Null
    /\ UNCHANGED processor

\* The record of a stop() that has settled.
StopSettled(k, pc, evs) ==
    [stop EXCEPT ![k] = [pc |-> pc, session |-> stop[k].session,
                         handle |-> Null, ev |-> stop[k].ev \o Types(evs)]]

\* lines 93-109 (and 117-121 when this.output is null): the call, up to the
\* await of finalize().
StopCall ==
    IF state = "inactive"
    THEN /\ last' = Step("stop", 0, "none", <<>>, FALSE)
         /\ UNCHANGED <<state, fields, frames, timers, graph, engine, start,
                        stop, env>>
    ELSE /\ LET k == NumStops + 1
                evs == <<Event("stop", NoData, "none")>>
            IN
            /\ state' = "inactive"
            /\ rafPending' = IF animationFrame # Null THEN CancelFrame
                             ELSE rafPending
            /\ animationFrame' = Null
            /\ IF output # Null
               THEN /\ engine' = [engine EXCEPT ![output].finalize =
                                      IF EngineAcceptsFinalize(output)
                                         /\ @ = "none"
                                      THEN "pending" ELSE @]
                    /\ stop' = [stop EXCEPT ![k] =
                           [pc |-> IF EngineAcceptsFinalize(output)
                                   THEN "waitFinalize" ELSE "waitRefused",
                            session |-> NumStarts,
                            handle |-> output, ev |-> <<>>]]
                    /\ last' = Step("stop", k, "none", <<>>, FALSE)
                    /\ UNCHANGED <<fields, graph>>
               ELSE /\ Cleanup
                    /\ stop' = [stop EXCEPT ![k] =
                           [pc |-> "done", session |-> NumStarts,
                            handle |-> Null, ev |-> Types(evs)]]
                    /\ last' = Step("stop", k, "none", evs, FALSE)
                    /\ UNCHANGED engine
         /\ UNCHANGED <<timers, start, env>>

\* lines 109-126: finalize() settles; the blob is built from whatever
\* this.output holds now, then #cleanup and the stop event.  The catch block
\* dispatches error and rethrows; it does not run #cleanup.
StopFinalized(k, ok) ==
    /\ stop[k].pc \in {"waitFinalize", "waitRefused"}
    /\ ok \in IF stop[k].pc = "waitRefused" THEN {FALSE}
              ELSE Outcomes(engine[stop[k].handle].finalize)
    /\ LET h == stop[k].handle
           err == IF ~ok THEN "EngineFailure" ELSE "TypeError"
           bad == <<Event("error", NoData, err)>>
           good == <<Event("dataavailable", output, "none"),
                     Event("stop", NoData, "none")>>
       IN
       /\ engine' = IF stop[k].pc = "waitRefused" THEN engine
                    ELSE [engine EXCEPT ![h].finalize = Settle(ok)]
       /\ IF ~ok \/ output = Null
          THEN /\ stop' = StopSettled(k, "failed", bad)
               /\ last' = Step("stop.resume", k, err, bad, FALSE)
               /\ UNCHANGED <<fields, graph>>
          ELSE /\ Cleanup
               /\ stop' = StopSettled(k, "done", good)
               /\ last' = Step("stop.resume", k, "none", good, FALSE)
    /\ UNCHANGED <<state, frames, timers, start, env>>

\* --------------------------------------------------------- pause / resume
PauseGuardBug == state # "paused"
\* line 133: pause() acts only when recording
PauseGuard == state = "recording"

\* lines 132-146
PauseCall ==
    IF ~PauseGuard
    THEN /\ last' = Step("pause", 0, "none", <<>>, FALSE)
         /\ UNCHANGED <<state, fields, frames, timers, graph, engine, start,
                        stop, env>>
    ELSE /\ state' = "paused"
         /\ rafPending' = IF animationFrame # Null THEN CancelFrame
                          ELSE rafPending
         /\ animationFrame' = Null
         /\ last' = Step("pause", 0, "none",
                         <<Event("pause", NoData, "none")>>, FALSE)
         /\ UNCHANGED <<fields, timers, graph, engine, start, stop, env>>

ResumeGuardBug == state # "recording"
\* line 152: resume() acts only when paused
ResumeGuard == state = "paused"

\* lines 151-159
ResumeCall ==
    IF ~ResumeGuard
    THEN /\ last' = Step("resume", 0, "none", <<>>, FALSE)
         /\ UNCHANGED <<state, fields, frames, timers, graph, engine, start,
                        stop, env>>
    ELSE /\ LET fc == StartFrameCapture("recording") IN
            /\ animationFrame' = fc.af
            /\ rafPending' = fc.pending
         /\ state' = "recording"
         /\ last' = Step("resume", 0, "none",
                         <<Event("resume", NoData, "none")>>,
                         Draws("recording"))
         /\ UNCHANGED <<fields, timers, graph, engine, start, stop, env>>

RequestDataGuardBug == state # "recording"
\* line 165: requestData() returns at once when inactive
RequestDataGuard == state = "inactive"

\* lines 164-172
RequestData ==
    /\ last' = Step("requestData", 0, "none",
                    IF RequestDataGuard THEN <<>>
                    ELSE <<Event("dataavailable", EmptyBlob, "none")>>,
                    FALSE)
    /\ UNCHANGED <<state, fields, frames, timers, graph, engine, start, stop,
                   env>>

\* ------------------------------------------------- browser-driven callbacks
\* lines 300-310: the display refresh runs a scheduled captureFrame.  With
\* this.canvas or this.video null the draw throws inside the callback.
Tick(id) ==
    /\ id \in rafPending
    /\ IF Draws(state)
       THEN /\ rafPending' = (rafPending \ {id}) \cup {FreshRaf}
            /\ animationFrame' = FreshRaf
            /\ last' = Step("tick", id, "none", <<>>, TRUE)
       ELSE IF state = "recording"
       THEN /\ rafPending' = rafPending \ {id}
            /\ last' = Step("tick", id, "TypeError", <<>>, FALSE)
            /\ UNCHANGED animationFrame
       ELSE /\ rafPending' = rafPending \ {id}
            /\ last' = Step("tick", id, "none", <<>>, FALSE)
            /\ UNCHANGED animationFrame
    /\ UNCHANGED <<state, fields, timers, graph, engine, start, stop, env>>

\* lines 319-327: one period of the setInterval callback of start() c.
TimerFire(c) ==
    /\ c \in timers
    /\ IF state = "inactive"
       THEN /\ timers' = timers \ {c}
            /\ last' = Step("timer", c, "none", <<>>, FALSE)
       ELSE /\ last' = Step("timer", c, "none",
                            <<Event("dataavailable", EmptyBlob, "none")>>,
                            FALSE)
            /\ UNCHANGED timers
    /\ UNCHANGED <<state, fields, frames, graph, engine, start, stop, env>>

\* ------------------------------------------------- selectors and the query
session == <<state, fields, frames, timers, graph, engine, start, stop,
             hasVideo, hasAudio, limit, mimeType, last>>

\* line 178: #setupOutput asks for the container format
GetOutputFormat ==
    /\ answer' = Answer("getOutputFormat", mimeType, OutputFormat(mimeType))
    /\ UNCHANGED session

\* line 218: #setupVideoCapture asks for the video codec
GetVideoCodec ==
    /\ answer' = Answer("getVideoCodec", mimeType, VideoCodec(mimeType))
    /\ UNCHANGED session

\* line 243: #setupAudioCapture asks for the audio codec
GetAudioCodec ==
    /\ answer' = Answer("getAudioCodec", mimeType, AudioCodec(mimeType))
    /\ UNCHANGED session

\* lines 435-449: BunnyRecorder.isTypeSupported(m)
IsTypeSupported(m) ==
    /\ answer' = Answer("isTypeSupported", m, TypeSupported(m))
    /\ UNCHANGED session

\* --------------------------------------------------------------------- Next
Next ==
    \/ \E ts \in {0, 1}, outOk \in BOOLEAN : StartCall(ts, outOk)
    \/ \E c \in StartIds : StartAfterOutput(c)
    \/ \E c \in StartIds, ok \in BOOLEAN : StartVideoReady(c, ok)
    \/ \E c \in StartIds, audioOk \in BOOLEAN : StartAfterVideo(c, audioOk)
    \/ \E c \in StartIds : StartAfterAudio(c)
    \/ \E c \in StartIds, ok \in BOOLEAN, handlerThrows \in BOOLEAN :
           StartEngineStarted(c, ok, handlerThrows)
    \/ StopCall
    \/ \E k \in StopIds, ok \in BOOLEAN : StopFinalized(k, ok)
    \/ PauseCall
    \/ ResumeCall
    \/ RequestData
    \/ \E id \in RafIds : Tick(id)
    \/ \E c \in StartIds : TimerFire(c)

\* up to MaxStarts sessions, which may overlap
Spec == Init /\ [][Next]_vars
\* up to SoloStarts sessions
SpecSolo == InitSolo /\ [][Next]_vars

\* the selectors and the capability query, for every mime type tried
NextMime ==
    \/ GetOutputFormat
    \/ GetVideoCodec
    \/ GetAudioCodec
    \/ \E m \in MimeInputs : IsTypeSupported(m)
SpecMime == InitMime /\ [][NextMime]_vars

\* ================================================================== claims
everything == <<state, fields, frames, timers, graph, engine, start, stop>>
StopSteps == {"stop", "stop.resume"}

\* The step just taken settled stop() k: it resolved (pc "done") or
\* rejected (pc "failed").
JustSettledStop(k, pc) ==
    last.op \in StopSteps /\ last.id = k /\ stop[k].pc = pc

LegalTransitions ==
    {<<"inactive", "recording">>, <<"recording", "paused">>,
     <<"paused", "recording">>, <<"recording", "inactive">>,
     <<"paused", "inactive">>}
\* C1: every change of `state` is inactive->recording, recording->paused,
\* paused->recording, recording->inactive or paused->inactive, whatever the
\* interleaving of calls, suspended start()/stop() and failures.
C1_LegalTransitions ==
    [][state' # state => <<state, state'>> \in LegalTransitions]_vars
\* a session is paused while its start() is still suspended in setup
C1_Witness ==
    /\ state = "paused"
    /\ \E c \in StartIds : start[c].pc = "waitVideo"

\* C2: start() called when state is recording or paused raises
\* InvalidStateError and changes nothing: not the state, no resource handle,
\* no frame tick, no timer, no event.
C2_IllegalStartRejected ==
    [][(last'.op = "start" /\ state # "inactive")
         => /\ last'.raised = "InvalidStateError"
            /\ last'.emitted = <<>>
            /\ UNCHANGED everything]_vars
C2_Witness ==
    /\ last.op = "start" /\ last.raised = "InvalidStateError"
    /\ state = "paused"
    /\ output # Null

\* C3: a stop() that began in a non-inactive state and resolved has emitted
\* exactly one dataavailable event (with an artifact) and then exactly one
\* stop event.
C3_StopEmitsDataThenStop ==
    \A k \in StopIds :
        stop[k].pc = "done" => stop[k].ev = <<"dataavailable", "stop">>

\* the tick whose id animationFrame holds is scheduled
FrameDriverRunning == animationFrame # Null /\ animationFrame \in rafPending
\* C4: the Frame Driver runs (the tick held in animationFrame is scheduled)
\* iff state is recording; the formula is the claim's "in particular" clause:
\* no frame tick is pending whenever state is inactive or paused.
C4_NoTickUnlessRecording ==
    state \in {"inactive", "paused"} => ~FrameDriverRunning

\* session s: from its accepted start() until that start() has failed or
\* the stop() that ended it has settled
InProgress(s) ==
    /\ start[s].pc \notin {"idle", "failed"}
    /\ ~\E k \in StopIds :
           stop[k].session = s /\ stop[k].pc \in {"done", "failed"}
\* C5: at most one session is in progress at any time, a session running
\* from the start() that was accepted until that start() has failed or the
\* stop() that ends it has settled.
C5_AtMostOneSession ==
    Cardinality({s \in StartIds : InProgress(s)}) <= 1

\* C6: when an accepted start() fails, then at its completion state is
\* inactive, the failure is raised to the caller, and that start() has
\* emitted exactly one error event, carrying the failure, as its last event
\* (no start event after it).
C6_StartFailureReverts ==
    (last.op = "start.resume" /\ last.raised # "none")
      => /\ state = "inactive"
         /\ start[last.id].pc = "failed"
         /\ Len(last.emitted) >= 1
         /\ last.emitted[Len(last.emitted)] =
                Event("error", NoData, last.raised)
         /\ Cardinality({i \in DOMAIN start[last.id].ev :
                            start[last.id].ev[i] = "error"}) = 1
         /\ start[last.id].ev[Len(start[last.id].ev)] = "error"
\* the legacy start handler threw: the start event, then the error event
C6_Witness ==
    /\ last.op = "start.resume" /\ last.raised = "HandlerError"
    /\ start[last.id].ev = <<"start", "error">>
    /\ rafPending # {}

\* C7: when a stop() that began in a non-inactive state fails, it has emitted
\* an error event carrying the failure and no stop event, the failure is
\* raised, state is inactive and a following start() is accepted.
C7_StopFailureLeavesInactive ==
    \A k \in StopIds :
        JustSettledStop(k, "failed")
          => /\ last.raised # "none"
             /\ last.emitted = <<Event("error", NoData, last.raised)>>
             /\ stop[k].ev = <<"error">>
             /\ state = "inactive"
             /\ ~StartRejected

Released ==
    /\ mediaStreamSource = Null /\ audioContext = Null
    /\ video = Null /\ canvas = Null /\ output = Null
    /\ videoSource = Null /\ audioSource = Null
\* C8: when a stop() that began in a non-inactive state settles, resolved or
\* rejected, every resource handle is released.
C8_CleanupOnEveryPath ==
    \A k \in StopIds :
        (JustSettledStop(k, "done") \/ JustSettledStop(k, "failed"))
          => Released

\* C9: after a stop() resolves, the Audio Tap is disconnected from its source
\* node and from the output sink and the recorder holds no reference to it.
C9_TapDestroyedAtStop ==
    \A k \in StopIds :
        JustSettledStop(k, "done")
          => /\ processor = Null
             /\ tapFromSource = {}
             /\ tapToSink = {}

\* C10: pause() outside recording and resume() outside paused are silent
\* no-ops: nothing raised, no event, state unchanged, no frame tick scheduled
\* or cancelled.
C10_PauseResumeNoOps ==
    [][(\/ last'.op = "pause" /\ state # "recording"
        \/ last'.op = "resume" /\ state # "paused")
         => /\ last'.raised = "none"
            /\ last'.emitted = <<>>
            /\ UNCHANGED everything]_vars
C10_Witness ==
    /\ last.op = "resume" /\ last.emitted = <<>>
    /\ state = "recording"
    /\ FrameDriverRunning

\* C11: requestData() emits nothing and changes nothing when inactive; when
\* recording or paused it emits exactly one dataavailable event carrying the
\* empty placeholder and leaves state, tick schedule and handles unchanged.
C11_RequestDataPlaceholder ==
    [][last'.op = "requestData"
         => /\ last'.raised = "none"
            /\ last'.emitted =
                   IF state = "inactive" THEN <<>>
                   ELSE <<Event("dataavailable", EmptyBlob, "none")>>
            /\ UNCHANGED everything]_vars
C11_Witness ==
    /\ last.op = "requestData"
    /\ state = "paused"
    /\ Types(last.emitted) = <<"dataavailable">>
    /\ output # Null

\* Session c has been ended by a stop() call.
Stopped(c) == \E k \in StopIds : stop[k].pc # "idle" /\ stop[k].session = c

\* C12: the timeslice timer created by a start() emits no dataavailable
\* event after the stop() that ended that session, whatever is called
\* later, so at most one timeslice timer is live.
C12_TimerSilentAfterStop ==
    /\ (last.op = "timer" /\ last.emitted # <<>>) => ~Stopped(last.id)
    /\ Cardinality(timers) <= 1

\* start() c resolves in this step with its session still active.
StartSucceeds(c) ==
    /\ start[c].pc = "waitEngineStart"
    /\ start'[c].pc = "done"
    /\ state' # "inactive"

\* C13: after a successful start() the capture surface exists iff the stream
\* had a video track and the audio tap exists iff it had an audio track;
\* without a video track no frame tick is scheduled.
C13_CaptureMatchesTracks ==
    [][\A c \in StartIds :
          StartSucceeds(c)
             => /\ (canvas' # Null) = hasVideo
                /\ (processor' # Null) = hasAudio
                /\ ~hasVideo => rafPending' = {}]_vars

\* C14: no frame is drawn while state is paused or inactive: a step draws
\* only with state recording at the time of the draw (resume() sets the
\* state first), so ticks delivered during a pause or after a stop draw
\* nothing.
C14_NoDrawUnlessRecording ==
    [][last'.drew => IF last'.op = "resume" THEN state' = "recording"
                     ELSE state = "recording"]_vars
C14_Witness ==
    /\ last.op = "tick"
    /\ ~last.drew
    /\ state = "paused"
    /\ canvas # Null
    /\ video # Null

\* Case-insensitive comparison, letter by letter.
SameLetter(a, b) ==
    a = b \/ \E i \in DOMAIN UpperCase : {a, b} = {UpperCase[i], LowerCase[i]}
\* sub occurs in s at position i, letter case ignored
OccursAt(s, sub, i) ==
    /\ i + Len(sub) - 1 <= Len(s)
    /\ \A j \in 1..Len(sub) : SameLetter(s[i + j - 1], sub[j])
Contains(s, sub) == \E i \in 1..Len(s) : OccursAt(s, sub, i)
asked == answer.arg

\* C15: format and codecs are functions of the configured mime type alone,
\* by case-insensitive substring tests in a fixed order: WebM if it holds
\* "webm", else MP4; AV1 before VP9 before VP8, else AVC; Opus before
\* Vorbis, else AAC.  "video/unknown" gives MP4, AVC, AAC.
C15_SelectionBySubstring ==
    /\ answer.fn \in {"getOutputFormat", "getVideoCodec", "getAudioCodec"}
          => asked = mimeType
    /\ answer.fn = "getOutputFormat"
          => answer.result = IF Contains(asked, Webm) THEN "webm" ELSE "mp4"
    /\ answer.fn = "getVideoCodec"
          => answer.result = IF Contains(asked, Av1) THEN "av1"
                             ELSE IF Contains(asked, Vp9) THEN "vp9"
                             ELSE IF Contains(asked, Vp8) THEN "vp8"
                             ELSE "avc"
    /\ answer.fn = "getAudioCodec"
          => answer.result = IF Contains(asked, Opus) THEN "opus"
                             ELSE IF Contains(asked, Vorbis) THEN "vorbis"
                             ELSE "aac"
    /\ (answer.fn = "getOutputFormat" /\ asked = CUnknown)
          => answer.result = "mp4"
    /\ (answer.fn = "getVideoCodec" /\ asked = CUnknown)
          => answer.result = "avc"
    /\ (answer.fn = "getAudioCodec" /\ asked = CUnknown)
          => answer.result = "aac"
C15_Witness ==
    /\ answer.fn = "getVideoCodec"
    /\ Contains(asked, Av1)
    /\ Contains(asked, Vp9)
    /\ answer.result = "av1"

\* C16: isTypeSupported(m) is true iff m, letter case ignored, starts with
\* one of the seven allow-listed strings, whatever the recorder is
\* configured with: true for "video/mp4", false for "audio/ogg".
C16_SupportedByPrefix ==
    answer.fn = "isTypeSupported"
       => /\ answer.result = (\E type \in SupportedTypes :
                                  OccursAt(asked, type, 1))
          /\ asked = VideoMp4 => answer.result = TRUE
          /\ asked = COgg => answer.result = FALSE
C16_Witness ==
    /\ answer.fn = "isTypeSupported"
    /\ answer.result = TRUE
    /\ asked # ToLowerCase(asked)
    /\ mimeType = COgg

\* In this step start() c calls start() on the handle in this.output.
CallsEngineStart(c) ==
    start[c].pc = "afterAudio" /\ start'[c].pc = "waitEngineStart"
\* In this step stop() k calls finalize() on the handle in this.output.
CallsFinalize(k) ==
    stop[k].pc = "idle" /\ stop'[k].pc \in {"waitFinalize", "waitRefused"}
\* In this step start() c had a track refused by a handle already started.
TrackRefused(c) ==
    start[c].pend # "EngineFailure" /\ start'[c].pend = "EngineFailure"

\* C17: every engine handle is driven in protocol order: tracks are added
\* only before its start(), start() is called at most once, finalize() is
\* called at most once and only after its start() has completed.
C17_EngineProtocol ==
    [][/\ \A c \in StartIds :
            /\ ~TrackRefused(c)
            /\ CallsEngineStart(c) => engine[output].start = "none"
       /\ \A k \in StopIds :
            CallsFinalize(k) => /\ engine[output].start = "ok"
                                /\ engine[output].finalize = "none"]_vars

\* C18: at most one frame-tick chain exists: the only display-refresh
\* callback scheduled is the one whose id this.animationFrame holds.
C18_OneTickChain == rafPending \subseteq {animationFrame}

\* In this step stop() k resolves, having awaited finalize() on its handle.
StopResolves(k) == stop[k].pc = "waitFinalize" /\ stop'[k].pc = "done"

\* C19: a stop() acts on the session it ended: the artifact is read from
\* the handle whose finalize() it awaited, and that is the handle its
\* cleanup releases, never one created by a later start().
C19_StopActsOnOwnSession ==
    [][\A k \in StopIds :
          StopResolves(k)
             => /\ output = stop[k].handle
                /\ last'.emitted[1] =
                       Event("dataavailable", stop[k].handle, "none")]_vars

\* The start event of the newest session has been emitted.
StartEmitted ==
    /\ NumStarts > 0
    /\ \E i \in DOMAIN start[NumStarts].ev : start[NumStarts].ev[i] = "start"

\* C20: the start event is emitted only while state is recording, and the
\* pause, resume and dataavailable events of a session are emitted after
\* that session's start event.
C20_StartEventFirst ==
    [][/\ (\E i \in DOMAIN last'.emitted : last'.emitted[i].type = "start")
             => state = "recording"
       /\ (last'.op \in {"pause", "resume", "requestData"}
             /\ last'.emitted # <<>>) => StartEmitted]_vars
====
